---- MODULE Spec2Model ----
(***************************************************************************)
(* PlasticClient.process_diffs / diff_files / write_file                   *)
(* (rbtools/clients/plastic.py) as a state machine.                        *)
(*                                                                         *)
(* All text is a sequence of one-character strings, so that the regular    *)
(* expression, str.strip, str.startswith, str.replace and str.splitlines   *)
(* are computed on characters as Python computes them.  "NUL" stands for   *)
(* the single byte 0.                                                      *)
(***************************************************************************)
EXTENDS Integers, Sequences, FiniteSets, TLC

VARIABLES
    entries,       \* my_diff_entries: the input lines
    repo,          \* what "cm cat <revspec>" yields, per revision spec
    diffWording,   \* the sentence the installed diff prints for binary files
    status,        \* "idle", "running", "returned" or "died"
    idx,           \* number of entries the for loop has consumed
    files,         \* content of the three temporary files, NoFile if absent
    writer,        \* per temporary file: index of the entry whose fetch wrote it last
    log,           \* the write_file and diff_files calls made so far, in order
    diff_lines,    \* the list diff_lines of process_diffs
    todo,          \* the calls the current pass of the loop has still to make
    err,           \* which die() site ended the run
    result,        \* the string process_diffs returned
    raw,           \* a raw diff output (collapse step taken alone)
    collapsed,     \* raw after dl.replace('\r\r\n', '\r\n')
    phase          \* "raw" or "collapsed"

vars == <<entries, repo, diffWording, status, idx, files, writer, log,
          diff_lines, todo, err, result, raw, collapsed, phase>>

----------------------------------------------------------------------------
(* Bounds *)

MaxEntries == 2
MaxMoveEntries == 3
MaxRaw == 4

----------------------------------------------------------------------------
(* Literals of the source *)

RevLit == <<"r", "e", "v", ":", "r", "e", "v", "i", "d", ":">>
SrcLit == <<"s", "r", "c", ":">>
DstLit == <<"d", "s", "t", ":">>
SentinelSpec == <<"r", "e", "v", ":", "r", "e", "v", "i", "d", ":", "-", "1">>
FilesLit == <<"F", "i", "l", "e", "s", " ">>
AndLit == <<" ", "a", "n", "d", " ">>
DifferLit == <<" ", "d", "i", "f", "f", "e", "r">>
BinaryFilesLit == <<"B", "i", "n", "a", "r", "y", " ", "f", "i", "l", "e", "s", " ">>
BannerOpen == <<"=", "=", "=", "=", " ">>
MinusHdr == <<"-", "-", "-", " ">>
PlusHdr == <<"+", "+", "+", " ">>
TypeLetters == {"A", "C", "M", "D"}
RevChars == {"-", "0", "1", "2", "3", "4", "5", "6", "7", "8", "9"}
Whitespace == {" ", "\t", "\n", "\r"}

----------------------------------------------------------------------------
(* Python string primitives *)

Max(S) == CHOOSE x \in S : \A y \in S : y <= x
Min(S) == CHOOSE x \in S : \A y \in S : x <= y

StartsWith(s, p) == Len(p) <= Len(s) /\ SubSeq(s, 1, Len(p)) = p

LitAt(s, i, lit) ==
    /\ i >= 1
    /\ i + Len(lit) - 1 <= Len(s)
    /\ SubSeq(s, i, i + Len(lit) - 1) = lit

Contains(s, lit) == \E i \in 1..Len(s) : LitAt(s, i, lit)

\* str.strip(): leading and trailing whitespace removed
Strip(s) ==
    LET keep == {i \in 1..Len(s) : s[i] \notin Whitespace}
    IN  IF keep = {} THEN <<>> ELSE SubSeq(s, Min(keep), Max(keep))

RECURSIVE Join(_)
\* ''.join(list)
Join(ls) == IF ls = <<>> THEN <<>> ELSE Head(ls) \o Join(Tail(ls))

RECURSIVE ReplaceCRCRLF(_)
\* dl.replace('\r\r\n', '\r\n'): one left-to-right pass over non-overlapping
\* occurrences; the replacement text is not scanned again
ReplaceCRCRLF(s) ==
    IF Len(s) < 3 THEN s
    ELSE IF s[1] = "\r" /\ s[2] = "\r" /\ s[3] = "\n"
         THEN <<"\r", "\n">> \o ReplaceCRCRLF(SubSeq(s, 4, Len(s)))
         ELSE <<s[1]>> \o ReplaceCRCRLF(Tail(s))

RECURSIVE SplitLines(_)
\* str.splitlines(True): lines end at "\r\n", "\n" or "\r"; the ends are kept
SplitLines(s) ==
    IF s = <<>> THEN <<>>
    ELSE LET brk == {i \in 1..Len(s) : s[i] \in {"\n", "\r"}}
         IN  IF brk = {} THEN <<s>>
             ELSE LET b == Min(brk)
                      e == IF s[b] = "\r" /\ b < Len(s) /\ s[b + 1] = "\n"
                           THEN b + 1 ELSE b
                  IN  <<SubSeq(s, 1, e)>> \o SplitLines(SubSeq(s, e + 1, Len(s)))

----------------------------------------------------------------------------
(* The regular expression of process_diffs, as re.search applies it *)

\* end of the maximal run of [-\d] starting at p (p - 1 if there is none)
RunEnd(s, p) ==
    LET stop == {q \in p..Len(s) : s[q] \notin RevChars}
    IN  IF stop = {} THEN Len(s) ELSE Min(stop) - 1

\* "rev:revid:[-\d]+ " at p: the position of the space that follows it, 0 if
\* there is no match.  [-\d]+ cannot give characters back: the character
\* after a shorter run is in [-\d], never the space the pattern needs.
RevSpecEnd(s, p) ==
    IF LitAt(s, p, RevLit)
    THEN LET e == RunEnd(s, p + Len(RevLit))
         IN  IF e >= p + Len(RevLit) /\ e < Len(s) /\ s[e + 1] = " "
             THEN e + 1 ELSE 0
    ELSE 0

\* positions k of a " dst:" that can end the srcpath group starting at p
DstStarts(s, p) == {k \in p..Len(s) : s[k] = " " /\ LitAt(s, k + 1, DstLit)}

\* with the file group ending before the space at j: the rest of the
\* pattern matches
RestMatches(s, j) ==
    /\ s[j] = " "
    /\ LET e1 == RevSpecEnd(s, j + 1)
       IN  /\ e1 > 0
           /\ LET e2 == RevSpecEnd(s, e1 + 1)
              IN  /\ e2 > 0
                  /\ LitAt(s, e2 + 1, SrcLit)
                  /\ DstStarts(s, e2 + 1 + Len(SrcLit)) # {}

\* ends (the space after) of the file group, for a match starting at i
FileEnds(s, i) == {j \in (i + 2)..Len(s) : RestMatches(s, j)}

\* start positions at which the pattern matches
MatchStarts(s) ==
    {i \in 1..(Len(s) - 1) :
        s[i] \in TypeLetters /\ s[i + 1] = " " /\ FileEnds(s, i) # {}}

NoMatch == [matched |-> FALSE]

\* re.search(pattern, f): the leftmost match; within it the greedy .* of
\* file, then of srcpath, take the longest text that lets the rest match
Search(s) ==
    IF MatchStarts(s) = {} THEN NoMatch
    ELSE LET i  == Min(MatchStarts(s))
             j  == Max(FileEnds(s, i))
             e1 == RevSpecEnd(s, j + 1)
             e2 == RevSpecEnd(s, e1 + 1)
             sp == e2 + 1 + Len(SrcLit)
             k  == Max(DstStarts(s, sp))
         IN  [matched       |-> TRUE,
              type          |-> s[i],
              file          |-> SubSeq(s, i + 2, j - 1),
              revspec       |-> SubSeq(s, j + 1, e1 - 1),
              parentrevspec |-> SubSeq(s, e1 + 1, e2 - 1),
              srcpath       |-> SubSeq(s, sp, k - 1),
              dstpath       |-> SubSeq(s, k + 1 + Len(DstLit), Len(s))]

----------------------------------------------------------------------------
(* The collaborators: the temporary files, cm cat, diff, execute and die *)

empty_filename == <<"/", "e">>
tmp_diff_from_filename == <<"/", "f">>
tmp_diff_to_filename == <<"/", "t">>
TmpFiles == {empty_filename, tmp_diff_from_filename, tmp_diff_to_filename}

\* self.workspacedir, set by get_repository_info
workspacedir == <<"/", "w">>

\* values no text equals: an absent file, a failed cm cat, no return value
NoFile == <<"NoFile">>
NoRevision == <<"NoRevision">>
NoResult == <<"NoResult">>

\* "cm cat <filespec>": the content of the revision, NoRevision when cm fails
Cat(filespec) ==
    IF filespec \in DOMAIN repo THEN repo[filespec] ELSE NoRevision

IsBinary(c) == \E i \in 1..Len(c) : c[i] = "NUL"

NoNewlineLit == <<"\\", " ", "N", "o", " ", "n", "e", "w", "l", "i", "n", "e", " ",
                  "a", "t", " ", "e", "n", "d", " ", "o", "f", " ", "f", "i", "l", "e", "\n">>

RECURSIVE Marked(_, _)
\* the lines of content c, each behind the sign diff gives it
Marked(sign, c) ==
    IF c = <<>> THEN <<>>
    ELSE LET nl == {i \in 1..Len(c) : c[i] = "\n"}
         IN  IF nl = {} THEN <<sign>> \o c \o <<"\n">> \o NoNewlineLit
             ELSE <<sign>> \o SubSeq(c, 1, Min(nl))
                      \o Marked(sign, SubSeq(c, Min(nl) + 1, Len(c)))

\* what "diff -urN old new" prints for file contents o and n.  The time
\* stamps of its two header lines and the ranges of its @@ line are left
\* out; the hunk removes every old line and adds every new one.
DiffOutput(old_file, new_file, o, n) ==
    IF o = n THEN <<>>
    ELSE IF IsBinary(o) \/ IsBinary(n)
         THEN (IF diffWording = "Files" THEN FilesLit ELSE BinaryFilesLit)
                  \o old_file \o AndLit \o new_file \o DifferLit \o <<"\n">>
         ELSE MinusHdr \o old_file \o <<"\n">> \o PlusHdr \o new_file \o <<"\n">>
                  \o <<"@", "@", "\n">> \o Marked("-", o) \o Marked("+", n)

\* the exit status of diff: 0 no differences, 1 differences, 2 trouble
\* (binary files), anything else when the invocation itself is broken
DiffExit(o, n, broken) ==
    IF broken THEN 127
    ELSE IF o = n THEN 0
    ELSE IF IsBinary(o) \/ IsBinary(n) THEN 2 ELSE 1

\* rbtools.utils.process.execute: a non-zero exit status is fatal unless ignored
ExecuteDies(rc, ignore_errors, extra_ignore_errors) ==
    rc # 0 /\ ~ignore_errors /\ rc \notin extra_ignore_errors

\* rbtools.utils.process.die: the temporary storage is released (cleanup_tempfiles)
CleanupTempfiles == [t \in TmpFiles |-> NoFile]

----------------------------------------------------------------------------
(* diff_files, from the output of diff on *)

\* Variant: the workspace root is left on the display path
StripWorkspaceNever(filename) == filename

\* if filename.startswith(self.workspacedir): filename = filename[len(...):]
StripWorkspace(filename) ==
    IF StartsWith(filename, workspacedir)
    THEN SubSeq(filename, Len(workspacedir) + 1, Len(filename))
    ELSE filename

\* dl = dl.replace('\r\r\n', '\r\n'); dl = dl.splitlines(True)
DiffLines(out) == SplitLines(ReplaceCRCRLF(out))

\* the single line "Files a and b differ" becomes "Binary files a and b differ\n"
BinaryRewrite(dl, old_file, new_file) ==
    IF /\ Len(dl) = 1
       /\ StartsWith(dl[1], FilesLit \o old_file \o AndLit \o new_file \o DifferLit)
    THEN <<BinaryFilesLit \o old_file \o AndLit \o new_file \o DifferLit \o <<"\n">>>>
    ELSE dl

\* "==== %s (%s) ==%s==\n" % (filename, newrevspec, changetype)
Banner(filename, newrevspec, changetype) ==
    BannerOpen \o filename \o <<" ", "(">> \o newrevspec
        \o <<")", " ", "=", "=", changetype, "=", "=", "\n">>

\* Variant: the two revision labels are exchanged between the header lines
HeadersSwapped(dl, filename, newrevspec, parentrevspec, changetype) ==
    IF dl = <<>> THEN <<>>
    ELSE IF StartsWith(dl[1], BinaryFilesLit)
    THEN <<Banner(filename, newrevspec, changetype)>> \o dl \o <<<<"\n">>>>
    ELSE LET hd == [dl EXCEPT
                      ![1] = MinusHdr \o filename \o <<"\t">> \o newrevspec \o <<"\n">>,
                      ![2] = PlusHdr \o filename \o <<"\t">> \o parentrevspec \o <<"\n">>]
         IN  IF hd[Len(hd)][Len(hd[Len(hd)])] # "\n" THEN Append(hd, <<"\n">>) ELSE hd

\* Variant: the binary chunk ends without its blank line
HeadersNoBlank(dl, filename, newrevspec, parentrevspec, changetype) ==
    IF dl = <<>> THEN <<>>
    ELSE IF StartsWith(dl[1], BinaryFilesLit)
    THEN <<Banner(filename, newrevspec, changetype)>> \o dl
    ELSE LET hd == [dl EXCEPT
                      ![1] = MinusHdr \o filename \o <<"\t">> \o parentrevspec \o <<"\n">>,
                      ![2] = PlusHdr \o filename \o <<"\t">> \o newrevspec \o <<"\n">>]
         IN  IF hd[Len(hd)][Len(hd[Len(hd)])] # "\n" THEN Append(hd, <<"\n">>) ELSE hd

\* the banner or the two header lines, and the repair of a missing last newline
Headers(dl, filename, newrevspec, parentrevspec, changetype) ==
    IF dl = <<>> THEN <<>>
    ELSE IF StartsWith(dl[1], BinaryFilesLit)
    THEN <<Banner(filename, newrevspec, changetype)>> \o dl \o <<<<"\n">>>>
    ELSE LET hd == [dl EXCEPT
                      ![1] = MinusHdr \o filename \o <<"\t">> \o parentrevspec \o <<"\n">>,
                      ![2] = PlusHdr \o filename \o <<"\t">> \o newrevspec \o <<"\n">>]
         IN  IF hd[Len(hd)][Len(hd[Len(hd)])] # "\n" THEN Append(hd, <<"\n">>) ELSE hd

\* the list diff_files returns, given what diff printed
FormatDiff(out, old_file, new_file, filename, newrevspec, parentrevspec, changetype) ==
    Headers(BinaryRewrite(DiffLines(out), old_file, new_file),
            StripWorkspace(filename), newrevspec, parentrevspec, changetype)

\* diff_files: execute(diff_cmd, extra_ignore_errors=(1,2)) is fatal or not
DiffDies(rc) == ExecuteDies(rc, FALSE, {1, 2})

\* write_file: the exit status of cm cat
CatExit(filespec) == IF Cat(filespec) = NoRevision THEN 1 ELSE 0

\* Variant: cm cat run with ignore_errors=True
CatDiesNever(filespec) == ExecuteDies(CatExit(filespec), TRUE, {})

\* write_file: execute(["cm", "cat", ...]) is fatal or not
CatDies(filespec) == ExecuteDies(CatExit(filespec), FALSE, {})

\* diff_lines += dl
Extend(lines, dl) == lines \o dl

----------------------------------------------------------------------------
(* process_diffs: the calls each branch of the loop body makes, in order *)

WriteCall(filename, filespec, tmpfile) ==
    [op |-> "write_file", filename |-> filename, filespec |-> filespec,
     tmpfile |-> tmpfile]

DiffCall(old_file, new_file, filename, newrevspec, parentrevspec, changetype) ==
    [op |-> "diff_files", old_file |-> old_file, new_file |-> new_file,
     filename |-> filename, newrevspec |-> newrevspec,
     parentrevspec |-> parentrevspec, changetype |-> changetype]

\* Variant: the old side of a moved file is fetched at parentrevspec
MovedCallsParent(m) ==
    << WriteCall(m.srcpath, m.parentrevspec, tmp_diff_from_filename),
       DiffCall(tmp_diff_from_filename, empty_filename, m.srcpath,
                SentinelSpec, m.revspec, m.type),
       WriteCall(m.dstpath, m.revspec, tmp_diff_to_filename),
       DiffCall(empty_filename, tmp_diff_to_filename, m.dstpath,
                m.revspec, SentinelSpec, m.type) >>

\* changetype == "M": a delete of srcpath followed by an add of dstpath
MovedCalls(m) ==
    << WriteCall(m.srcpath, m.revspec, tmp_diff_from_filename),
       DiffCall(tmp_diff_from_filename, empty_filename, m.srcpath,
                SentinelSpec, m.revspec, m.type),
       WriteCall(m.dstpath, m.revspec, tmp_diff_to_filename),
       DiffCall(empty_filename, tmp_diff_to_filename, m.dstpath,
                m.revspec, SentinelSpec, m.type) >>

\* changetype in ['A'] or (changetype in ['C'] and parentrevspec == "rev:revid:-1")
OneContent(m) ==
    m.type = "A" \/ (m.type = "C" /\ m.parentrevspec = SentinelSpec)

\* Variant: a changed file is compared without fetching its parent revision
OtherCallsStale(m) ==
    IF OneContent(m)
    THEN << WriteCall(m.file, m.revspec, tmp_diff_to_filename),
            DiffCall(empty_filename, tmp_diff_to_filename, m.file,
                     m.revspec, m.parentrevspec, m.type) >>
    ELSE IF m.type = "C"
    THEN << WriteCall(m.file, m.revspec, tmp_diff_to_filename),
            DiffCall(tmp_diff_from_filename, tmp_diff_to_filename, m.file,
                     m.revspec, m.parentrevspec, m.type) >>
    ELSE << WriteCall(m.file, m.parentrevspec, tmp_diff_from_filename),
            DiffCall(tmp_diff_from_filename, empty_filename, m.file,
                     m.revspec, m.parentrevspec, m.type) >>

\* the else branch, for the change types it knows
OtherCalls(m) ==
    IF OneContent(m)
    THEN << WriteCall(m.file, m.revspec, tmp_diff_to_filename),
            DiffCall(empty_filename, tmp_diff_to_filename, m.file,
                     m.revspec, m.parentrevspec, m.type) >>
    ELSE IF m.type = "C"
    THEN << WriteCall(m.file, m.parentrevspec, tmp_diff_from_filename),
            WriteCall(m.file, m.revspec, tmp_diff_to_filename),
            DiffCall(tmp_diff_from_filename, tmp_diff_to_filename, m.file,
                     m.revspec, m.parentrevspec, m.type) >>
    ELSE << WriteCall(m.file, m.parentrevspec, tmp_diff_from_filename),
            DiffCall(tmp_diff_from_filename, empty_filename, m.file,
                     m.revspec, m.parentrevspec, m.type) >>

\* Variant: os.unlink(empty_filename) is left out
UnlinkedTwo == [t \in TmpFiles |-> IF t = empty_filename THEN files[t] ELSE NoFile]

\* the three os.unlink calls
Unlinked == [t \in TmpFiles |-> NoFile]

----------------------------------------------------------------------------
(* The inputs *)

\* one line of "cm diff --format={status} {path} rev:revid:{revid}
\* rev:revid:{parentrevid} src:{srccmpath} dst:{dstcmpath}{newline}"
FormatLine(type, path, revid, parentrevid, srccmpath, dstcmpath) ==
    <<type, " ">> \o path \o <<" ">> \o RevLit \o revid \o <<" ">>
        \o RevLit \o parentrevid \o <<" ">> \o SrcLit \o srccmpath
        \o <<" ">> \o DstLit \o dstcmpath \o <<"\n">>

PathA == <<"/", "w", "/", "a">>
PathB == <<"b">>

LineAdded == FormatLine("A", PathB, <<"1">>, <<"-", "1">>, PathB, PathB)
LineDeleted == FormatLine("D", PathA, <<"-", "1">>, <<"1">>, PathA, PathA)
LineChanged == FormatLine("C", PathB, <<"2">>, <<"1">>, PathB, PathB)
LineChangedNoParent == FormatLine("C", PathA, <<"2">>, <<"-", "1">>, PathA, PathA)
LineMoved == FormatLine("M", PathB, <<"1">>, <<"2">>, PathA, PathB)
LineBlank == <<" ", "\n">>
LineGarbage == <<"?", "\n">>
LineJunkBefore == <<"x">> \o LineAdded

InputLines ==
    { LineAdded, LineDeleted, LineChanged, LineChangedNoParent, LineMoved,
      LineBlank, LineGarbage, LineJunkBefore }

\* a moved file, the delete and the add it stands for, and a blank line
MoveLines == { LineMoved, LineDeleted, LineAdded, LineBlank, LineGarbage }

\* f = f.strip(); m = re.search(...), for every line of the inputs
Parsed == [l \in InputLines \cup MoveLines |-> Search(Strip(l))]

IsBlank(l) == Strip(l) = <<>>

RECURSIVE SeqsUpTo(_, _)
SeqsUpTo(S, n) ==
    IF n = 0 THEN {<<>>}
    ELSE LET shorter == SeqsUpTo(S, n - 1)
         IN  shorter \cup
             {Append(q, x) : q \in {r \in shorter : Len(r) = n - 1}, x \in S}

Rev1 == RevLit \o <<"1">>
Rev2 == RevLit \o <<"2">>

Repos ==
    { [r \in {Rev1, Rev2} |-> IF r = Rev1 THEN c1 ELSE c2] :
        c1 \in {<<"a", "\n">>, <<>>, <<"NUL">>, NoRevision},
        c2 \in {<<"b", "\r", "\r", "\n">>, <<"a", "\n">>} }

----------------------------------------------------------------------------
(* process_diffs *)

InitWith(lists) ==
    /\ entries \in lists
    /\ repo \in Repos
    /\ diffWording \in {"Files", "Binary files"}
    /\ status = "idle"
    /\ idx = 0
    /\ files = [t \in TmpFiles |-> NoFile]
    /\ writer = [t \in TmpFiles |-> 0]
    /\ log = <<>>
    /\ diff_lines = <<>>
    /\ todo = <<>>
    /\ err = "none"
    /\ result = NoResult
    /\ raw = <<>>
    /\ collapsed = <<>>
    /\ phase = "raw"

Init == InitWith(SeqsUpTo(InputLines, MaxEntries))

\* the three make_tempfile() calls: three empty files
Begin ==
    /\ status = "idle"
    /\ status' = "running"
    /\ files' = [t \in TmpFiles |-> <<>>]
    /\ UNCHANGED <<entries, repo, diffWording, idx, writer, log, diff_lines,
                   todo, err, result, raw, collapsed, phase>>

\* the for loop can take its next entry
AtLoopHead == status = "running" /\ todo = <<>> /\ idx < Len(entries)

\* if not f: continue
IterateBlank ==
    /\ AtLoopHead
    /\ IsBlank(entries[idx + 1])
    /\ idx' = idx + 1
    /\ UNCHANGED <<entries, repo, diffWording, status, files, writer, log,
                   diff_lines, todo, err, result, raw, collapsed, phase>>

\* if not m: die("Could not parse 'cm log' response: %s" % f)
IterateUnparsed ==
    /\ AtLoopHead
    /\ ~IsBlank(entries[idx + 1])
    /\ ~Parsed[entries[idx + 1]].matched
    /\ idx' = idx + 1
    /\ status' = "died"
    /\ err' = "MalformedRecord"
    /\ files' = CleanupTempfiles
    /\ UNCHANGED <<entries, repo, diffWording, writer, log, diff_lines, todo,
                   result, raw, collapsed, phase>>

\* if changetype == "M"
IterateMoved ==
    /\ AtLoopHead
    /\ ~IsBlank(entries[idx + 1])
    /\ Parsed[entries[idx + 1]].matched
    /\ Parsed[entries[idx + 1]].type = "M"
    /\ idx' = idx + 1
    /\ todo' = MovedCalls(Parsed[entries[idx + 1]])
    /\ UNCHANGED <<entries, repo, diffWording, status, files, writer, log,
                   diff_lines, err, result, raw, collapsed, phase>>

\* else: an added, changed or deleted file, or die("Don't know how to handle ...")
IterateOther ==
    /\ AtLoopHead
    /\ ~IsBlank(entries[idx + 1])
    /\ Parsed[entries[idx + 1]].matched
    /\ Parsed[entries[idx + 1]].type # "M"
    /\ idx' = idx + 1
    /\ IF Parsed[entries[idx + 1]].type \in {"A", "C", "D"}
       THEN /\ todo' = OtherCalls(Parsed[entries[idx + 1]])
            /\ UNCHANGED <<status, err, files>>
       ELSE /\ status' = "died"
            /\ err' = "UnknownChangeType"
            /\ files' = CleanupTempfiles
            /\ todo' = <<>>
    /\ UNCHANGED <<entries, repo, diffWording, writer, log, diff_lines,
                   result, raw, collapsed, phase>>

\* write_file(filename, filespec, tmpfile)
WriteFile ==
    /\ status = "running"
    /\ todo # <<>>
    /\ Head(todo).op = "write_file"
    /\ log' = Append(log, [call |-> Head(todo), rec |-> idx,
                           rc |-> CatExit(Head(todo).filespec)])
    /\ IF CatDies(Head(todo).filespec)
       THEN /\ status' = "died"
            /\ err' = "RetrievalError"
            /\ files' = CleanupTempfiles
            /\ todo' = <<>>
            /\ UNCHANGED writer
       ELSE /\ files' = [files EXCEPT ![Head(todo).tmpfile] =
                            IF Cat(Head(todo).filespec) = NoRevision
                            THEN @ ELSE Cat(Head(todo).filespec)]
            /\ writer' = [writer EXCEPT ![Head(todo).tmpfile] = idx]
            /\ todo' = Tail(todo)
            /\ UNCHANGED <<status, err>>
    /\ UNCHANGED <<entries, repo, diffWording, idx, diff_lines, result, raw,
                   collapsed, phase>>

\* dl = diff_files(old_file, new_file, filename, newrevspec, parentrevspec,
\* changetype); diff_lines += dl.  broken: the diff invocation itself fails
DiffFiles(broken) ==
    /\ status = "running"
    /\ todo # <<>>
    /\ Head(todo).op = "diff_files"
    /\ \E out \in {DiffOutput(Head(todo).old_file, Head(todo).new_file,
                              files[Head(todo).old_file],
                              files[Head(todo).new_file])} :
       \E rc \in {DiffExit(files[Head(todo).old_file],
                           files[Head(todo).new_file], broken)} :
       \E dl \in {IF DiffDies(rc) THEN <<>>
                  ELSE FormatDiff(out, Head(todo).old_file, Head(todo).new_file,
                                  Head(todo).filename, Head(todo).newrevspec,
                                  Head(todo).parentrevspec, Head(todo).changetype)} :
          /\ log' = Append(log, [call |-> Head(todo), rec |-> idx, rc |-> rc,
                                 out |-> out, dl |-> dl,
                                 oldwriter |-> writer[Head(todo).old_file],
                                 newwriter |-> writer[Head(todo).new_file]])
          /\ IF DiffDies(rc)
             THEN /\ status' = "died"
                  /\ err' = "DiffPrimitiveError"
                  /\ files' = CleanupTempfiles
                  /\ todo' = <<>>
                  /\ UNCHANGED diff_lines
             ELSE /\ diff_lines' = Extend(diff_lines, dl)
                  /\ todo' = Tail(todo)
                  /\ UNCHANGED <<status, err, files>>
    /\ UNCHANGED <<entries, repo, diffWording, idx, writer, result, raw,
                   collapsed, phase>>

\* the loop is over: unlink the temporary files, return ''.join(diff_lines)
Finish ==
    /\ status = "running"
    /\ todo = <<>>
    /\ idx = Len(entries)
    /\ files' = Unlinked
    /\ result' = Join(diff_lines)
    /\ status' = "returned"
    /\ UNCHANGED <<entries, repo, diffWording, idx, writer, log, diff_lines,
                   todo, err, raw, collapsed, phase>>

Next ==
    \/ Begin
    \/ IterateBlank
    \/ IterateUnparsed
    \/ IterateMoved
    \/ IterateOther
    \/ WriteFile
    \/ \E broken \in BOOLEAN : DiffFiles(broken)
    \/ Finish

Spec == Init /\ [][Next]_vars

\* runs over a moved file and the delete and the add it stands for
InitMove == InitWith(SeqsUpTo(MoveLines, MaxMoveEntries))

SpecMove == InitMove /\ [][Next]_vars

----------------------------------------------------------------------------
(* The collapse step of diff_files taken alone, on every short raw output *)

RawStrings == SeqsUpTo({"\r", "\n", "x"}, MaxRaw)

InitCollapse ==
    /\ entries = <<>>
    /\ repo \in {r \in Repos : r[Rev1] = <<>> /\ r[Rev2] = <<"a", "\n">>}
    /\ diffWording = "Files"
    /\ status = "idle"
    /\ idx = 0
    /\ files = [t \in TmpFiles |-> NoFile]
    /\ writer = [t \in TmpFiles |-> 0]
    /\ log = <<>>
    /\ diff_lines = <<>>
    /\ todo = <<>>
    /\ err = "none"
    /\ result = NoResult
    /\ raw \in RawStrings
    /\ collapsed = <<>>
    /\ phase = "raw"

Collapse ==
    /\ phase = "raw"
    /\ collapsed' = ReplaceCRCRLF(raw)
    /\ phase' = "collapsed"
    /\ UNCHANGED <<entries, repo, diffWording, status, idx, files, writer, log,
                   diff_lines, todo, err, result, raw>>

NextCollapse == Collapse

SpecCollapse == InitCollapse /\ [][NextCollapse]_vars

----------------------------------------------------------------------------
(* What a run has done, read off the log *)

IsDiff(e) == e.call.op = "diff_files"
IsWrite(e) == e.call.op = "write_file"

\* the calls made for the k-th entry
EventsOf(k) == SelectSeq(log, LAMBDA e : e.rec = k)

RECURSIVE Emitted(_)
\* the lines the diff_files calls of a list of events returned, in order
Emitted(evs) ==
    IF evs = <<>> THEN <<>>
    ELSE (IF IsDiff(Head(evs)) THEN Head(evs).dl ELSE <<>>) \o Emitted(Tail(evs))

\* the DiffChunk of the k-th entry
ChunkOf(k) == Emitted(EventsOf(k))

\* the loop has consumed the k-th entry and finished its pass without dying
Done(k) ==
    /\ k \in 1..idx
    /\ k < idx \/ todo = <<>>
    /\ ~(status = "died" /\ k = idx)

Record(k) == Parsed[entries[k]]

IsRecord(k, type) ==
    ~IsBlank(entries[k]) /\ Record(k).matched /\ Record(k).type = type

HasHeader(chunk, hdr) == \E i \in 1..Len(chunk) : StartsWith(chunk[i], hdr)

MinusLine(name, spec) == MinusHdr \o name \o <<"\t">> \o spec \o <<"\n">>
PlusLine(name, spec) == PlusHdr \o name \o <<"\t">> \o spec \o <<"\n">>

\* a display path with the workspace root taken off
Shown(path) ==
    IF Len(path) >= Len(workspacedir) /\ SubSeq(path, 1, Len(workspacedir)) = workspacedir
    THEN [i \in 1..(Len(path) - Len(workspacedir)) |-> path[i + Len(workspacedir)]]
    ELSE path

----------------------------------------------------------------------------
(* C1 *)

\* entry j is the delete, and entry j + 1 the add, that the moved entry i stands for
StandsFor(i, j) ==
    /\ IsRecord(i, "M") /\ IsRecord(j, "D") /\ IsRecord(j + 1, "A")
    /\ Record(j).file = Record(i).srcpath
    /\ Record(j).parentrevspec = Record(i).revspec
    /\ Record(j).revspec = SentinelSpec
    /\ Record(j + 1).file = Record(i).dstpath
    /\ Record(j + 1).revspec = Record(i).revspec
    /\ Record(j + 1).parentrevspec = SentinelSpec

\* C1: the text emitted for a Moved record is the text emitted for the
\* equivalent Deleted record at sourcePath followed by the equivalent Added
\* record at destPath, whatever the content of the fetched revision (text,
\* binary or empty).
C1_MoveIsDeleteThenAdd ==
    \A i \in 1..Len(entries) : \A j \in 1..(Len(entries) - 1) :
        (Done(i) /\ Done(j) /\ Done(j + 1) /\ StandsFor(i, j))
            => ChunkOf(i) = ChunkOf(j) \o ChunkOf(j + 1)

\* the same, for content that is not binary (holds; the binary case is what fails)
C1_TextMoveIsDeleteThenAdd ==
    \A i \in 1..Len(entries) : \A j \in 1..(Len(entries) - 1) :
        (Done(i) /\ Done(j) /\ Done(j + 1) /\ StandsFor(i, j)
            /\ ~IsBinary(Cat(Record(i).revspec)))
            => ChunkOf(i) = ChunkOf(j) \o ChunkOf(j + 1)

----------------------------------------------------------------------------
(* C2, C3 *)

\* C2 as stated: the chunk of every Added record contains a +++ header line
\* and no --- header line.
C2_AddedPlusOnly ==
    \A k \in 1..Len(entries) :
        (Done(k) /\ IsRecord(k, "A"))
            => HasHeader(ChunkOf(k), PlusHdr) /\ ~HasHeader(ChunkOf(k), MinusHdr)

\* C2 amended: the chunk of an Added record whose content is non-empty text
\* begins with the line "--- <path>\t<parentRevisionSpec>" followed by the
\* line "+++ <path>\t<revisionSpec>"; for empty content the chunk is empty,
\* and for binary content it has neither header line.
C2_AddedBothHeaders ==
    \A k \in 1..Len(entries) :
        (Done(k) /\ IsRecord(k, "A")) =>
            LET m == Record(k)
                c == Cat(m.revspec)
            IN  IF c = <<>> THEN ChunkOf(k) = <<>>
                ELSE IF IsBinary(c)
                THEN /\ ChunkOf(k) # <<>>
                     /\ ~HasHeader(ChunkOf(k), PlusHdr)
                     /\ ~HasHeader(ChunkOf(k), MinusHdr)
                ELSE /\ Len(ChunkOf(k)) >= 3
                     /\ ChunkOf(k)[1] = MinusLine(Shown(m.file), m.parentrevspec)
                     /\ ChunkOf(k)[2] = PlusLine(Shown(m.file), m.revspec)

C2_Witness ==
    \E k \in 1..Len(entries) :
        /\ Done(k) /\ IsRecord(k, "A")
        /\ Cat(Record(k).revspec) = <<"a", "\n">>
        /\ HasHeader(ChunkOf(k), PlusHdr) /\ HasHeader(ChunkOf(k), MinusHdr)

\* C3 as stated: the chunk of every Deleted record contains a --- header line
\* and no +++ header line.
C3_DeletedMinusOnly ==
    \A k \in 1..Len(entries) :
        (Done(k) /\ IsRecord(k, "D"))
            => HasHeader(ChunkOf(k), MinusHdr) /\ ~HasHeader(ChunkOf(k), PlusHdr)

\* C3 amended: the chunk of a Deleted record whose parent content is
\* non-empty text begins with the line "--- <path>\t<parentRevisionSpec>"
\* followed by the line "+++ <path>\t<revisionSpec>"; for empty content the
\* chunk is empty, and for binary content it has neither header line.
C3_DeletedBothHeaders ==
    \A k \in 1..Len(entries) :
        (Done(k) /\ IsRecord(k, "D")) =>
            LET m == Record(k)
                c == Cat(m.parentrevspec)
            IN  IF c = <<>> THEN ChunkOf(k) = <<>>
                ELSE IF IsBinary(c)
                THEN /\ ChunkOf(k) # <<>>
                     /\ ~HasHeader(ChunkOf(k), PlusHdr)
                     /\ ~HasHeader(ChunkOf(k), MinusHdr)
                ELSE /\ Len(ChunkOf(k)) >= 3
                     /\ ChunkOf(k)[1] = MinusLine(Shown(m.file), m.parentrevspec)
                     /\ ChunkOf(k)[2] = PlusLine(Shown(m.file), m.revspec)

C3_Witness ==
    \E k \in 1..Len(entries) :
        /\ Done(k) /\ IsRecord(k, "D")
        /\ Cat(Record(k).parentrevspec) = <<"a", "\n">>
        /\ HasHeader(ChunkOf(k), MinusHdr) /\ HasHeader(ChunkOf(k), PlusHdr)

----------------------------------------------------------------------------
(* C4 *)

RECURSIVE ChunksUpTo(_)
\* the chunks of entries 1..k, one after the other
ChunksUpTo(k) == IF k = 0 THEN <<>> ELSE ChunksUpTo(k - 1) \o ChunkOf(k)

\* the call failed: cm cat exited non-zero, or diff exited with a status that
\* is neither "no differences" nor one of the two "differences found"
Failed(e) == IF IsWrite(e) THEN e.rc # 0 ELSE e.rc \notin {0, 1, 2}

Unparsable(k) == ~IsBlank(entries[k]) /\ ~Record(k).matched

----------------------------------------------------------------------------
(* C5 *)

\* the temporary file was never written, or last written for entry k
FreshFor(file, w, k) == (file = empty_filename /\ w = 0) \/ (file # empty_filename /\ w = k)

\* C5: diff_lines is the concatenation of the chunks of the entries consumed
\* so far, in input order; the calls in the log are in input order; every
\* file a diff_files call compares is the never written empty file or a file
\* written by a fetch made for the same entry; and two entries that are the
\* same record have the same chunk wherever they stand in the input.
C5_InputOrder ==
    /\ diff_lines = ChunksUpTo(idx)
    /\ status = "returned" => result = Join(ChunksUpTo(Len(entries)))
    /\ \A i \in 1..Len(log) : \A j \in i..Len(log) : log[i].rec <= log[j].rec
    /\ \A i \in 1..Len(log) :
          IsDiff(log[i]) =>
              /\ FreshFor(log[i].call.old_file, log[i].oldwriter, log[i].rec)
              /\ FreshFor(log[i].call.new_file, log[i].newwriter, log[i].rec)
    /\ \A i \in 1..Len(entries) : \A j \in 1..Len(entries) :
          (Done(i) /\ Done(j) /\ entries[i] = entries[j]) => ChunkOf(i) = ChunkOf(j)

\* two entries with different chunks, the second one reusing a temporary file
\* the first one wrote
C5_Witness ==
    /\ status = "returned"
    /\ Len(entries) = 2
    /\ ChunkOf(1) # <<>> /\ ChunkOf(2) # <<>> /\ ChunkOf(1) # ChunkOf(2)
    /\ \E i \in 1..Len(log) : \E j \in 1..Len(log) :
          /\ IsWrite(log[i]) /\ IsWrite(log[j])
          /\ log[i].rec = 1 /\ log[j].rec = 2
          /\ log[i].call.tmpfile = log[j].call.tmpfile

----------------------------------------------------------------------------
(* C6 *)

----------------------------------------------------------------------------
(* C7 *)

\* <int>: an optional minus sign and at least one digit
IsInt(t) ==
    /\ t # <<>>
    /\ \A i \in 1..Len(t) : t[i] \in RevChars
    /\ \A i \in 2..Len(t) : t[i] # "-"
    /\ t # <<"-">>

\* the line, from its first character to its last, is
\* "<type:[ACMD]> <path> rev:revid:<int> rev:revid:<int> src:<path> dst:<path>"
Grammar(s) ==
    /\ Len(s) >= 2
    /\ s[1] \in TypeLetters
    /\ s[2] = " "
    /\ \E j \in FileEnds(s, 1) :
          LET e1 == RevSpecEnd(s, j + 1)
              e2 == RevSpecEnd(s, e1 + 1)
          IN  /\ IsInt(SubSeq(s, j + 1 + Len(RevLit), e1 - 1))
              /\ IsInt(SubSeq(s, e1 + 1 + Len(RevLit), e2 - 1))

\* C7: every trimmed non-empty line that does not match the grammar makes the
\* run die with MalformedRecord at that line, and no call is ever made for
\* it; a blank line never makes the run die.
C7_MalformedRejected ==
    \A k \in 1..idx :
        /\ (~IsBlank(entries[k]) /\ ~Grammar(Strip(entries[k]))) =>
              /\ status = "died" /\ err = "MalformedRecord" /\ idx = k
              /\ EventsOf(k) = <<>>
        /\ IsBlank(entries[k]) => ~(status = "died" /\ idx = k)

----------------------------------------------------------------------------
(* C8 *)

\* diff printed the single line "Files <old> and <new> differ"
SaidFilesDiffer(e) ==
    e.out = FilesLit \o e.call.old_file \o AndLit \o e.call.new_file
               \o DifferLit \o <<"\n">>

\* C8: when diff prints the single line "Files <old> and <new> differ", the
\* chunk diff_files returns is exactly the banner
\* "==== <path> (<revisionSpec>) ==<changeType>==", the line
\* "Binary files <old> and <new> differ" and one blank line, where <path> is
\* the display path without the workspace root and <changeType> is the
\* letter of the input line.
C8_BinaryChunk ==
    \A i \in 1..Len(log) :
        (IsDiff(log[i]) /\ ~Failed(log[i]) /\ SaidFilesDiffer(log[i])) =>
            LET e == log[i]
                letter == Record(e.rec).type
            IN  e.dl = << BannerOpen \o Shown(e.call.filename) \o <<" ", "(">>
                              \o e.call.newrevspec
                              \o <<")", " ", "=", "=", letter, "=", "=", "\n">>,
                          BinaryFilesLit \o e.call.old_file \o AndLit
                              \o e.call.new_file \o DifferLit \o <<"\n">>,
                          <<"\n">> >>

\* the binary chunk of a deleted file whose path lies under the workspace root
C8_Witness ==
    \E i \in 1..Len(log) :
        /\ IsDiff(log[i]) /\ ~Failed(log[i]) /\ SaidFilesDiffer(log[i])
        /\ StartsWith(log[i].call.filename, workspacedir)
        /\ Len(log[i].dl) = 3

----------------------------------------------------------------------------
(* C9 *)

CRCRLF == <<"\r", "\r", "\n">>

\* C9: after the collapse step the text contains no CR CR LF, and applying
\* the step to its own result changes nothing.
C9_CollapseComplete ==
    phase = "collapsed" =>
        /\ ~Contains(collapsed, CRCRLF)
        /\ ReplaceCRCRLF(collapsed) = collapsed

----------------------------------------------------------------------------
(* C10 *)

SideOf(file) ==
    IF file = empty_filename THEN "empty"
    ELSE IF file = tmp_diff_from_filename THEN "old" ELSE "new"

\* a call, reduced to what is fetched into which side, or which sides are compared
Reduced(e) ==
    IF IsWrite(e) THEN <<"fetch", e.call.filespec, SideOf(e.call.tmpfile)>>
    ELSE <<"diff", SideOf(e.call.old_file), SideOf(e.call.new_file)>>

ReducedEvents(k) == [i \in 1..Len(EventsOf(k)) |-> Reduced(EventsOf(k)[i])]

\* the fetches and comparisons of a record, per change type
ExpectedCalls(m) ==
    IF m.type = "A" \/ (m.type = "C" /\ m.parentrevspec = SentinelSpec)
    THEN << <<"fetch", m.revspec, "new">>, <<"diff", "empty", "new">> >>
    ELSE IF m.type = "C"
    THEN << <<"fetch", m.parentrevspec, "old">>, <<"fetch", m.revspec, "new">>,
            <<"diff", "old", "new">> >>
    ELSE IF m.type = "D"
    THEN << <<"fetch", m.parentrevspec, "old">>, <<"diff", "old", "empty">> >>
    ELSE << <<"fetch", m.revspec, "old">>, <<"diff", "old", "empty">>,
            <<"fetch", m.revspec, "new">>, <<"diff", "empty", "new">> >>

IsPrefix(a, b) == Len(a) <= Len(b) /\ SubSeq(b, 1, Len(a)) = a

\* C10: the fetches and comparisons made for a record are exactly those of
\* its change type, in that order (a beginning of them while the entry is
\* being processed or when the run died in it); no call is made for a blank
\* or unparsable line.
C10_FetchPlan ==
    \A k \in 1..idx :
        IF IsBlank(entries[k]) \/ ~Record(k).matched
        THEN EventsOf(k) = <<>>
        ELSE IF Done(k)
        THEN ReducedEvents(k) = ExpectedCalls(Record(k))
        ELSE IsPrefix(ReducedEvents(k), ExpectedCalls(Record(k)))

\* a moved file processed to the end: two fetches of revisionSpec, two diffs
C10_Witness ==
    \E k \in 1..Len(entries) :
        /\ status = "returned"
        /\ IsRecord(k, "M")
        /\ Len(EventsOf(k)) = 4
        /\ ChunkOf(k) # <<>>

====
